---- MODULE Spec2Model ----
(***************************************************************************)
(* The command pool thread of "Vulcan, Go, and A Triangle, Part 11 bis":   *)
(* NewCommandPoolThread starts one goroutine that locks its OS thread,     *)
(* creates a vk.CommandPool, serves CommandPoolThreadRequests received on  *)
(* an unbuffered channel, and destroys the pool once a completion channel  *)
(* arrives on the (unbuffered) signalFinishedChan.  Callers use            *)
(* CommandPoolThread.Submit and CommandPoolThread.Destroy.                 *)
(*                                                                         *)
(* Three specifications share the module: Spec is one command pool thread  *)
(* with its callers in full detail; FleetSpec is several threads side by   *)
(* side, reduced to which goroutine receives from which channel; FrameSpec *)
(* is the frame loop of the triangle application (mainLoop, drawFrame,     *)
(* recreatePipeline) with its fences.  Each leaves the others' variables   *)
(* at their initial values.                                                *)
(***************************************************************************)
EXTENDS Integers, Sequences, FiniteSets, TLC

\* ---------------------------------------------------------------- bounds
NumCallers == 2      \* caller goroutines using the handle
MaxWork == 3         \* work the callers start in a run: one unit per Submit or
                     \* Destroy call, plus one per command buffer a request names
                     \* (len(request.Buffers) + Alloc.CommandBufferCount)

MaxThreads == 2      \* NewCommandPoolThread calls in a run
MaxSubmits == 3      \* Submit calls on the handles of those threads in a run
MaxImages == 2       \* most images a swapchain has

\* ------------------------------------------------------------ identities
Executor == 0        \* the goroutine started by `go func()`
Callers == 1..NumCallers

vkSuccess == "VK_SUCCESS"
vkErrorOutOfDeviceMemory == "VK_ERROR_OUT_OF_DEVICE_MEMORY"
Results == {vkSuccess, vkErrorOutOfDeviceMemory}

NilError == "nil"
SomeError == "error"
Errors == {NilError, SomeError}

\* what a Commands callback that calls back into the handle is blocked in
InSubmit == "blocked in cpt.Submit"
InDestroy == "blocked in cpt.Destroy"
HandleCalls == {InSubmit, InDestroy}

\* vk.CommandBuffer handles: <<request, index>>; the zero value is the null handle
NullHandle == <<0, 0>>
cmdPool == "cmdPool"             \* the pool this executor created
ForeignPool == "otherPool"       \* any other pool a caller may name in Alloc

\* The zero value CommandPoolThreadResponse{}: Alloc is 0 (vk.Success), nil slices
ZeroResponse == [Alloc |-> vkSuccess, Commands |-> <<>>, Buffers |-> <<>>]

\* capacity of the reply channel made by Submit: make(chan ..., 1)
BackChanCap == 1

\* FramesInFlight: 2 in main()
FramesInFlight == 2
Frames == 0..(FramesInFlight - 1)

\* vk.Result values of AcquireNextImage and QueuePresent
vkSuboptimal == "VK_SUBOPTIMAL_KHR"
vkErrorOutOfDate == "VK_ERROR_OUT_OF_DATE_KHR"
vkErrorDeviceLost == "VK_ERROR_DEVICE_LOST"
FrameResults == {vkSuccess, vkSuboptimal, vkErrorOutOfDate, vkErrorDeviceLost}

\* vk.Fence(vk.NullHandle) in app.imagesInFlight; fence f of app.inFlightFences
\* is written f + 1 there
NullFence == 0

\* the nil *CommandPoolThread
NilHandle == [rChan |-> 0, sfChan |-> 0]

VARIABLES
    execPc,        \* position of the executor goroutine
    pinned,        \* runtime.LockOSThread in effect for the executor goroutine
    createRet,     \* ret := vk.CreateCommandPool(...)
    loop,          \* var loop bool
    finishedChan,  \* var finishedChan chan<- struct{} (0 is nil, else a Destroy call)
    cur,           \* request := <-requestChan (0 when between requests)
    response,      \* response := CommandPoolThreadResponse{}
    k,             \* index of the range loop over response.Buffers
    ctorPc,        \* NewCommandPoolThread in the constructing goroutine
    cpt,           \* the *CommandPoolThread it returned is non-nil
    ctorRet,       \* the vk.Result it returned
    reqs,          \* every request a Submit call was started with
    back,          \* the reply channel of each request: buffer and closed flag
    recvd,         \* values the caller has received from each reply channel
    dones,         \* the completion channel of each Destroy call
    callerPc,      \* position of each caller goroutine
    callerArg,     \* the request / Destroy call a blocked caller is sending
    chansClosed,   \* requestChan and signalFinishedChan are closed
    log            \* history: what ran, in order, and on which goroutine

\* Several command pool threads side by side (NewCommandPoolThread called more
\* than once): which goroutine receives from which channel
VARIABLES
    chansMade,     \* how many channels `make` has returned so far
    goroutines,    \* per NewCommandPoolThread call: the goroutine it started
    handles,       \* per NewCommandPoolThread call: the *CommandPoolThread returned
    submitted,     \* every request passed to some handle's Submit
    shutdowns      \* completion channels offered by Destroy, per shutdown channel

\* The frame loop of the triangle application (mainLoop, drawFrame,
\* recreatePipeline) and the device that completes submitted work
VARIABLES
    framePc,           \* position of the main goroutine
    currentFrame,      \* app.currentFrame
    fenceSignaled,     \* state of each fence of app.inFlightFences
    fencePending,      \* a queue submission that will signal the fence is executing
    imagesInFlight,    \* app.imagesInFlight: per image, 0 (null handle) or a fence
    swapchainImages,   \* len(app.pipeline.SwapchainImages)
    imageIndex,        \* var imageIndex uint32
    framebufferResize, \* app.framebufferResize
    minimized,         \* the framebuffer size is 0 x 0
    entryFrame,        \* history: app.currentFrame when drawFrame was entered
    entryResize,       \* history: app.framebufferResize when drawFrame was entered
    recreated,         \* history: this drawFrame call has called recreatePipeline
    submittedSince,    \* history: fences submitted since the last recreatePipeline
    lastReturn         \* history: how the last drawFrame call ended

poolThreadVars == <<execPc, pinned, createRet, loop, finishedChan, cur, response, k,
                    ctorPc, cpt, ctorRet, reqs, back, recvd, dones, callerPc,
                    callerArg, chansClosed, log>>
fleetVars == <<chansMade, goroutines, handles, submitted, shutdowns>>
frameVars == <<framePc, currentFrame, fenceSignaled, fencePending, imagesInFlight,
               swapchainImages, imageIndex, framebufferResize, minimized,
               entryFrame, entryResize, recreated, submittedSince, lastReturn>>

vars == <<poolThreadVars, fleetVars, frameVars>>

execVars == <<execPc, pinned, createRet, loop, finishedChan, cur, response, k>>
ctorVars == <<ctorPc, cpt, ctorRet>>
callerVars == <<callerPc, callerArg>>

\* ---------------------------------------------------------------- helpers
Ev(op, thread, req, bufs, ret, pool) ==
    [op |-> op, thread |-> thread, req |-> req, bufs |-> bufs, ret |-> ret,
     pool |-> pool, pinned |-> pinned]

Logged(e) == log' = Append(log, e)

\* make([]vk.CommandBuffer, n): n zero values
MakeBuffers(n) == [i \in 1..n |-> NullHandle]
\* make([]error, n): n nil errors
MakeErrors(n) == [i \in 1..n |-> NilError]

\* What vk.AllocateCommandBuffers leaves in the slice it was given
Allocated(r, bufs, ret) ==
    IF ret = vkSuccess THEN [i \in 1..Len(bufs) |-> <<r, i>>] ELSE bufs

\* `for loop { select ... }`: where control goes when the loop condition is tested
LoopTest(l) == IF l THEN "select" ELSE "afterLoop"

\* a batch of n handles a caller passes as request.Buffers
FreeBatch(n) == [i \in 1..n |-> <<0, i>>]

\* work started by the requests in rs
RECURSIVE RequestWork(_)
RequestWork(rs) ==
    IF rs = <<>> THEN 0
    ELSE 1 + Len(Head(rs).Buffers) + Head(rs).Alloc.CommandBufferCount
         + RequestWork(Tail(rs))

\* work started so far by all Submit and Destroy calls
WorkStarted == RequestWork(reqs) + Len(dones)

Init ==
    /\ execPc = "lock"
    /\ pinned = FALSE
    /\ createRet = vkSuccess
    /\ loop = FALSE
    /\ finishedChan = 0
    /\ cur = 0
    /\ response = ZeroResponse
    /\ k = 0
    /\ ctorPc = "waiting"
    /\ cpt = FALSE
    /\ ctorRet = vkSuccess
    /\ reqs = <<>>
    /\ back = <<>>
    /\ recvd = <<>>
    /\ dones = <<>>
    /\ callerPc = [c \in Callers |-> "idle"]
    /\ callerArg = [c \in Callers |-> 0]
    /\ chansClosed = FALSE
    /\ log = <<>>

\* no NewCommandPoolThread call has been made
FleetInit ==
    /\ chansMade = 0
    /\ goroutines = <<>>
    /\ handles = <<>>
    /\ submitted = <<>>
    /\ shutdowns = {}

\* Variant of CreateFences: fenceInfo.Flags is left 0
CreateFences_Unsignaled == [f \in Frames |-> FALSE]

\* createFences: every fence is created with vk.FenceCreateSignaledBit
CreateFences == [f \in Frames |-> TRUE]

\* make([]vk.Fence, n): n null handles
MakeFences(n) == [i \in 1..n |-> NullFence]

\* len(pipeline.GraphicsCommandBuffers): NewPipeline allocates
\* len(framebuffers) command buffers, one framebuffer per image view, one
\* image view per swapchain image
LenGraphicsCommandBuffers == swapchainImages

\* the application before setup()
FrameInit ==
    /\ framePc = "setup"
    /\ currentFrame = 0
    /\ fenceSignaled = [f \in Frames |-> FALSE]
    /\ fencePending = [f \in Frames |-> FALSE]
    /\ imagesInFlight = <<>>
    /\ swapchainImages = 0
    /\ imageIndex = 0
    /\ framebufferResize = FALSE
    /\ minimized = FALSE
    /\ entryFrame = 0
    /\ entryResize = FALSE
    /\ recreated = FALSE
    /\ submittedSince = [f \in Frames |-> FALSE]
    /\ lastReturn = "none"

\* the state after construction of each part: the command pool thread (one,
\* or several side by side) and the triangle application
Start == Init /\ FleetInit /\ FrameInit

\* ------------------------------------------------- the executor goroutine
\* Variant of ExecLock: the goroutine never calls runtime.LockOSThread
ExecLock_NoPin(self) ==
    /\ execPc = "lock"
    /\ pinned' = FALSE
    /\ execPc' = "create"
    /\ Logged(Ev("LockOSThread", self, 0, <<>>, vkSuccess, cmdPool))
    /\ UNCHANGED <<createRet, loop, finishedChan, cur, response, k, ctorVars,
                   reqs, back, recvd, dones, callerVars, chansClosed>>
    /\ UNCHANGED <<fleetVars, frameVars>>

\* runtime.LockOSThread(); defer runtime.UnlockOSThread()
ExecLock(self) ==
    /\ execPc = "lock"
    /\ pinned' = TRUE
    /\ execPc' = "create"
    /\ Logged(Ev("LockOSThread", self, 0, <<>>, vkSuccess, cmdPool))
    /\ UNCHANGED <<createRet, loop, finishedChan, cur, response, k, ctorVars,
                   reqs, back, recvd, dones, callerVars, chansClosed>>
    /\ UNCHANGED <<fleetVars, frameVars>>

\* ret := vk.CreateCommandPool(device, createInfo, allocator, &cmdPool)
ExecCreate(self) ==
    /\ execPc = "create"
    /\ \E ret \in Results :
          /\ createRet' = ret
          /\ Logged(Ev("CreateCommandPool", self, 0, <<>>, ret, cmdPool))
    /\ execPc' = "sendCreate"
    /\ UNCHANGED <<pinned, loop, finishedChan, cur, response, k, ctorVars,
                   reqs, back, recvd, dones, callerVars, chansClosed>>
    /\ UNCHANGED <<fleetVars, frameVars>>

\* Variant of ExecSendCreateResult: `loop = true` without the test of ret
ExecSendCreateResult_AlwaysLoops(self) ==
    /\ execPc = "sendCreate"
    /\ ctorPc = "waiting"
    /\ ctorRet' = createRet
    /\ cpt' = (createRet = vkSuccess)
    /\ ctorPc' = "returned"
    /\ loop' = TRUE
    /\ execPc' = LoopTest(TRUE)
    /\ Logged(Ev("SendCreateResult", self, 0, <<>>, createRet, cmdPool))
    /\ UNCHANGED <<pinned, createRet, finishedChan, cur, response, k,
                   reqs, back, recvd, dones, callerVars, chansClosed>>
    /\ UNCHANGED <<fleetVars, frameVars>>

\* Variant of ExecSendCreateResult: the constructor builds the handle
\* without the test of ret
ExecSendCreateResult_HandleAlways(self) ==
    /\ execPc = "sendCreate"
    /\ ctorPc = "waiting"
    /\ ctorRet' = createRet
    /\ cpt' = TRUE
    /\ ctorPc' = "returned"
    /\ loop' = (createRet = vkSuccess)
    /\ execPc' = LoopTest(createRet = vkSuccess)
    /\ Logged(Ev("SendCreateResult", self, 0, <<>>, createRet, cmdPool))
    /\ UNCHANGED <<pinned, createRet, finishedChan, cur, response, k,
                   reqs, back, recvd, dones, callerVars, chansClosed>>
    /\ UNCHANGED <<fleetVars, frameVars>>

\* createResultChan <- ret, met by `ret := <-createResultChan` in the
\* constructor, which then builds the handle and returns; in the goroutine
\* `if ret == vk.Success { loop = true }` and the first test of `for loop`.
ExecSendCreateResult(self) ==
    /\ execPc = "sendCreate"
    /\ ctorPc = "waiting"
    /\ ctorRet' = createRet
    /\ cpt' = (createRet = vkSuccess)
    /\ ctorPc' = "returned"
    /\ loop' = (createRet = vkSuccess)
    /\ execPc' = LoopTest(createRet = vkSuccess)
    /\ Logged(Ev("SendCreateResult", self, 0, <<>>, createRet, cmdPool))
    /\ UNCHANGED <<pinned, createRet, finishedChan, cur, response, k,
                   reqs, back, recvd, dones, callerVars, chansClosed>>
    /\ UNCHANGED <<fleetVars, frameVars>>

\* Variant of ExecRecvShutdown: the shutdown channel is also polled between
\* the Commands calls of a batch
ExecRecvShutdown_MidRequest(self) ==
    /\ execPc \in {"select", "record"}
    /\ \E c \in Callers :
          /\ callerPc[c] = "destroy"
          /\ finishedChan' = callerArg[c]
          /\ callerPc' = [callerPc EXCEPT ![c] = "idle"]
          /\ callerArg' = [callerArg EXCEPT ![c] = 0]
          /\ dones' = [dones EXCEPT ![callerArg[c]].accepted = TRUE]
          /\ Logged(Ev("RecvShutdown", self, 0, <<>>, vkSuccess, cmdPool))
    /\ loop' = FALSE
    /\ execPc' = LoopTest(FALSE)
    /\ UNCHANGED <<pinned, createRet, cur, response, k, ctorVars,
                   reqs, back, recvd, chansClosed>>
    /\ UNCHANGED <<fleetVars, frameVars>>

\* Variant of ExecRecvShutdown: the case also destroys the pool itself
ExecRecvShutdown_DestroysToo(self) ==
    /\ execPc = "select"
    /\ \E c \in Callers :
          /\ callerPc[c] = "destroy"
          /\ finishedChan' = callerArg[c]
          /\ callerPc' = [callerPc EXCEPT ![c] = "idle"]
          /\ callerArg' = [callerArg EXCEPT ![c] = 0]
          /\ dones' = [dones EXCEPT ![callerArg[c]].accepted = TRUE]
          /\ log' = log \o <<Ev("RecvShutdown", self, 0, <<>>, vkSuccess, cmdPool),
                              Ev("DestroyCommandPool", self, 0, <<>>, vkSuccess, cmdPool)>>
    /\ loop' = FALSE
    /\ execPc' = LoopTest(FALSE)
    /\ UNCHANGED <<pinned, createRet, cur, response, k, ctorVars,
                   reqs, back, recvd, chansClosed>>
    /\ UNCHANGED <<fleetVars, frameVars>>

\* Variant of ExecRecvShutdown: the case forgets `loop = false`
ExecRecvShutdown_KeepsLooping(self) ==
    /\ execPc = "select"
    /\ \E c \in Callers :
          /\ callerPc[c] = "destroy"
          /\ finishedChan' = callerArg[c]
          /\ callerPc' = [callerPc EXCEPT ![c] = "idle"]
          /\ callerArg' = [callerArg EXCEPT ![c] = 0]
          /\ dones' = [dones EXCEPT ![callerArg[c]].accepted = TRUE]
          /\ Logged(Ev("RecvShutdown", self, 0, <<>>, vkSuccess, cmdPool))
    /\ execPc' = LoopTest(loop)
    /\ UNCHANGED <<pinned, createRet, loop, cur, response, k, ctorVars,
                   reqs, back, recvd, chansClosed>>
    /\ UNCHANGED <<fleetVars, frameVars>>

\* case finishedChan = <-signalFinishedChan: loop = false
\* (the send `cpt.sfChan <- c` of a caller blocked in Destroy completes)
ExecRecvShutdown(self) ==
    /\ execPc = "select"
    /\ \E c \in Callers :
          /\ callerPc[c] = "destroy"
          /\ finishedChan' = callerArg[c]
          /\ callerPc' = [callerPc EXCEPT ![c] = "idle"]
          /\ callerArg' = [callerArg EXCEPT ![c] = 0]
          /\ dones' = [dones EXCEPT ![callerArg[c]].accepted = TRUE]
          /\ Logged(Ev("RecvShutdown", self, 0, <<>>, vkSuccess, cmdPool))
    /\ loop' = FALSE
    /\ execPc' = LoopTest(FALSE)
    /\ UNCHANGED <<pinned, createRet, cur, response, k, ctorVars,
                   reqs, back, recvd, chansClosed>>
    /\ UNCHANGED <<fleetVars, frameVars>>

\* Variant of ExecRecvRequest: the request channel is also received from
\* while the executor waits to send the final response of the request before
ExecRecvRequest_WhileSending(self) ==
    /\ execPc \in {"select", "sendFinal"}
    /\ \E c \in Callers :
          /\ callerPc[c] = "submit"
          /\ cur' = callerArg[c]
          /\ reqs' = [reqs EXCEPT ![callerArg[c]].status = "processing"]
          /\ callerPc' = [callerPc EXCEPT ![c] = "idle"]
          /\ callerArg' = [callerArg EXCEPT ![c] = 0]
          /\ Logged(Ev("RecvRequest", self, callerArg[c], <<>>, vkSuccess, cmdPool))
    /\ execPc' = "free"
    /\ UNCHANGED <<pinned, createRet, loop, finishedChan, response, k, ctorVars,
                   back, recvd, dones, chansClosed>>
    /\ UNCHANGED <<fleetVars, frameVars>>

\* case request := <-requestChan:
\* (the send `cpt.rChan <- req` of a caller blocked in Submit completes)
ExecRecvRequest(self) ==
    /\ execPc = "select"
    /\ \E c \in Callers :
          /\ callerPc[c] = "submit"
          /\ cur' = callerArg[c]
          /\ reqs' = [reqs EXCEPT ![callerArg[c]].status = "processing"]
          /\ callerPc' = [callerPc EXCEPT ![c] = "idle"]
          /\ callerArg' = [callerArg EXCEPT ![c] = 0]
          /\ Logged(Ev("RecvRequest", self, callerArg[c], <<>>, vkSuccess, cmdPool))
    /\ execPc' = "free"
    /\ UNCHANGED <<pinned, createRet, loop, finishedChan, response, k, ctorVars,
                   back, recvd, dones, chansClosed>>
    /\ UNCHANGED <<fleetVars, frameVars>>

\* Variant of ExecFree: vk.FreeCommandBuffers is called without the length test
ExecFree_Always(self) ==
    /\ execPc = "free"
    /\ Logged(Ev("FreeCommandBuffers", self, cur, reqs[cur].Buffers, vkSuccess, cmdPool))
    /\ execPc' = "alloc"
    /\ UNCHANGED <<pinned, createRet, loop, finishedChan, cur, response, k,
                   ctorVars, reqs, back, recvd, dones, callerVars, chansClosed>>
    /\ UNCHANGED <<fleetVars, frameVars>>

\* Variant of ExecFree: the call passes a count of 1 instead of len(request.Buffers)
ExecFree_FirstOnly(self) ==
    /\ execPc = "free"
    /\ IF Len(reqs[cur].Buffers) > 0
          THEN Logged(Ev("FreeCommandBuffers", self, cur,
                         SubSeq(reqs[cur].Buffers, 1, 1), vkSuccess, cmdPool))
          ELSE UNCHANGED log
    /\ execPc' = "alloc"
    /\ UNCHANGED <<pinned, createRet, loop, finishedChan, cur, response, k,
                   ctorVars, reqs, back, recvd, dones, callerVars, chansClosed>>
    /\ UNCHANGED <<fleetVars, frameVars>>

\* if len(request.Buffers) > 0 { vk.FreeCommandBuffers(device, cmdPool, n, request.Buffers) }
ExecFree(self) ==
    /\ execPc = "free"
    /\ IF Len(reqs[cur].Buffers) > 0
          THEN Logged(Ev("FreeCommandBuffers", self, cur, reqs[cur].Buffers,
                         vkSuccess, cmdPool))
          ELSE UNCHANGED log
    /\ execPc' = "alloc"
    /\ UNCHANGED <<pinned, createRet, loop, finishedChan, cur, response, k,
                   ctorVars, reqs, back, recvd, dones, callerVars, chansClosed>>
    /\ UNCHANGED <<fleetVars, frameVars>>

\* Variant of ExecAlloc: a failed allocation `continue`s the loop with no reply
ExecAlloc_ContinueOnFailure(self) ==
    /\ execPc = "alloc"
    /\ IF reqs[cur].Alloc.CommandBufferCount > 0
          THEN \E ret \in Results :
                 LET bufs == Allocated(cur, MakeBuffers(reqs[cur].Alloc.CommandBufferCount), ret)
                 IN  /\ reqs' = [reqs EXCEPT ![cur].Alloc.CommandPool = cmdPool,
                                             ![cur].status =
                                                 IF ret = vkSuccess THEN @ ELSE "done"]
                     /\ response' = [Alloc |-> ret,
                                     Commands |-> IF ret = vkSuccess
                                                     THEN MakeErrors(Len(bufs))
                                                     ELSE <<>>,
                                     Buffers |-> bufs]
                     /\ Logged(Ev("AllocateCommandBuffers", self, cur, bufs, ret,
                                  reqs'[cur].Alloc.CommandPool))
                     /\ execPc' = IF ret = vkSuccess THEN "record" ELSE LoopTest(loop)
                     /\ cur' = IF ret = vkSuccess THEN cur ELSE 0
                     /\ k' = 0
          ELSE /\ execPc' = "sendFinal"
               /\ UNCHANGED <<reqs, response, log, k, cur>>
    /\ UNCHANGED <<pinned, createRet, loop, finishedChan, ctorVars,
                   back, recvd, dones, callerVars, chansClosed>>
    /\ UNCHANGED <<fleetVars, frameVars>>

\* Variant of ExecAlloc: request.Alloc.CommandPool is left as the caller set it
ExecAlloc_KeepsCallerPool(self) ==
    /\ execPc = "alloc"
    /\ IF reqs[cur].Alloc.CommandBufferCount > 0
          THEN \E ret \in Results :
                 LET bufs == Allocated(cur, MakeBuffers(reqs[cur].Alloc.CommandBufferCount), ret)
                 IN  /\ response' = [Alloc |-> ret,
                                     Commands |-> IF ret = vkSuccess
                                                     THEN MakeErrors(Len(bufs))
                                                     ELSE <<>>,
                                     Buffers |-> bufs]
                     /\ Logged(Ev("AllocateCommandBuffers", self, cur, bufs, ret,
                                  reqs[cur].Alloc.CommandPool))
                     /\ execPc' = IF ret = vkSuccess THEN "record" ELSE "sendResponse"
                     /\ k' = 0
                     /\ UNCHANGED reqs
          ELSE /\ execPc' = "sendFinal"
               /\ UNCHANGED <<reqs, response, log, k>>
    /\ UNCHANGED <<pinned, createRet, loop, finishedChan, cur, ctorVars,
                   back, recvd, dones, callerVars, chansClosed>>
    /\ UNCHANGED <<fleetVars, frameVars>>

\* if request.Alloc.CommandBufferCount > 0 {
\*     response := CommandPoolThreadResponse{}
\*     response.Buffers = make([]vk.CommandBuffer, count)
\*     request.Alloc.CommandPool = cmdPool
\*     response.Alloc = vk.AllocateCommandBuffers(device, &request.Alloc, response.Buffers)
\*     if response.Alloc != vk.Success {...} else { response.Commands = make([]error, n) ...
ExecAlloc(self) ==
    /\ execPc = "alloc"
    /\ IF reqs[cur].Alloc.CommandBufferCount > 0
          THEN \E ret \in Results :
                 LET bufs == Allocated(cur, MakeBuffers(reqs[cur].Alloc.CommandBufferCount), ret)
                 IN  /\ reqs' = [reqs EXCEPT ![cur].Alloc.CommandPool = cmdPool]
                     /\ response' = [Alloc |-> ret,
                                     Commands |-> IF ret = vkSuccess
                                                     THEN MakeErrors(Len(bufs))
                                                     ELSE <<>>,
                                     Buffers |-> bufs]
                     /\ Logged(Ev("AllocateCommandBuffers", self, cur, bufs, ret,
                                  reqs'[cur].Alloc.CommandPool))
                     /\ execPc' = IF ret = vkSuccess THEN "record" ELSE "sendResponse"
                     /\ k' = 0
          ELSE /\ execPc' = "sendFinal"
               /\ UNCHANGED <<reqs, response, log, k>>
    /\ UNCHANGED <<pinned, createRet, loop, finishedChan, cur, ctorVars,
                   back, recvd, dones, callerVars, chansClosed>>
    /\ UNCHANGED <<fleetVars, frameVars>>

\* Variant of ExecRecord: an error returned by Commands also ends the loop
ExecRecord_StopLoopOnError(self) ==
    /\ execPc = "record"
    /\ k < Len(response.Buffers)
    /\ \E e \in Errors :
          /\ response' = [response EXCEPT !.Commands[k + 1] = e]
          /\ Logged(Ev("Commands", self, cur, <<k, response.Buffers[k + 1]>>, e, cmdPool))
          /\ loop' = IF e = NilError THEN loop ELSE FALSE
    /\ k' = k + 1
    /\ execPc' = IF k + 1 < Len(response.Buffers) THEN "record" ELSE "sendResponse"
    /\ UNCHANGED <<pinned, createRet, finishedChan, cur, ctorVars,
                   reqs, back, recvd, dones, callerVars, chansClosed>>
    /\ UNCHANGED <<fleetVars, frameVars>>

\* Variant of ExecRecord: the range loop `break`s at the first error
ExecRecord_BreakOnError(self) ==
    /\ execPc = "record"
    /\ k < Len(response.Buffers)
    /\ \E e \in Errors :
          /\ response' = [response EXCEPT !.Commands[k + 1] = e]
          /\ Logged(Ev("Commands", self, cur, <<k, response.Buffers[k + 1]>>, e, cmdPool))
          /\ execPc' = IF k + 1 < Len(response.Buffers) /\ e = NilError
                          THEN "record" ELSE "sendResponse"
    /\ k' = k + 1
    /\ UNCHANGED <<pinned, createRet, loop, finishedChan, cur, ctorVars,
                   reqs, back, recvd, dones, callerVars, chansClosed>>
    /\ UNCHANGED <<fleetVars, frameVars>>

\* Variant of ExecRecord: the range loop visits the buffers from the last to
\* the first
ExecRecord_Descending(self) ==
    /\ execPc = "record"
    /\ k < Len(response.Buffers)
    /\ \E e \in Errors :
          /\ response' = [response EXCEPT !.Commands[Len(response.Buffers) - k] = e]
          /\ Logged(Ev("Commands", self, cur,
                       <<Len(response.Buffers) - 1 - k,
                         response.Buffers[Len(response.Buffers) - k]>>, e, cmdPool))
    /\ k' = k + 1
    /\ execPc' = IF k + 1 < Len(response.Buffers) THEN "record" ELSE "sendResponse"
    /\ UNCHANGED <<pinned, createRet, loop, finishedChan, cur, ctorVars,
                   reqs, back, recvd, dones, callerVars, chansClosed>>
    /\ UNCHANGED <<fleetVars, frameVars>>

\* for k, cmdBuffer := range response.Buffers {
\*     response.Commands[k] = request.Commands(k, cmdBuffer) }
ExecRecord(self) ==
    /\ execPc = "record"
    /\ k < Len(response.Buffers)
    /\ \E e \in Errors :
          /\ response' = [response EXCEPT !.Commands[k + 1] = e]
          /\ Logged(Ev("Commands", self, cur, <<k, response.Buffers[k + 1]>>, e, cmdPool))
    /\ k' = k + 1
    /\ execPc' = IF k + 1 < Len(response.Buffers) THEN "record" ELSE "sendResponse"
    /\ UNCHANGED <<pinned, createRet, loop, finishedChan, cur, ctorVars,
                   reqs, back, recvd, dones, callerVars, chansClosed>>
    /\ UNCHANGED <<fleetVars, frameVars>>

\* Variant of ExecRecordReenters: requestChan and signalFinishedChan have a
\* buffer, so the send made inside the callback completes and Commands returns
ExecRecordReenters_Returns(self) ==
    /\ execPc = "record"
    /\ k < Len(response.Buffers)
    /\ \E call \in HandleCalls :
          Logged(Ev("Commands", self, cur, <<k, response.Buffers[k + 1]>>, call, cmdPool))
    /\ k' = k + 1
    /\ execPc' = IF k + 1 < Len(response.Buffers) THEN "record" ELSE "sendResponse"
    /\ UNCHANGED <<pinned, createRet, loop, finishedChan, cur, response, ctorVars,
                   reqs, back, recvd, dones, callerVars, chansClosed>>
    /\ UNCHANGED <<fleetVars, frameVars>>

\* request.Commands(k, cmdBuffer) where the callback calls Submit or Destroy
\* on this executor's handle: the executor goroutine itself stands at
\* `cpt.rChan <- req` or `cpt.sfChan <- c`.  Both channels are unbuffered and
\* their only receiver is this goroutine's select, so the send never completes.
ExecRecordReenters(self) ==
    /\ execPc = "record"
    /\ k < Len(response.Buffers)
    /\ \E call \in HandleCalls :
          Logged(Ev("Commands", self, cur, <<k, response.Buffers[k + 1]>>, call, cmdPool))
    /\ execPc' = "inCallback"
    /\ UNCHANGED <<pinned, createRet, loop, finishedChan, cur, response, k, ctorVars,
                   reqs, back, recvd, dones, callerVars, chansClosed>>
    /\ UNCHANGED <<fleetVars, frameVars>>

\* Variant of ExecSendResponse: backChan is made without a buffer, so the send
\* waits for a receiver instead of being held by the channel
ExecSendResponse_Unbuffered(self) ==
    /\ execPc = "sendResponse"
    /\ Len(back[cur].buf) < BackChanCap - 1
    /\ back' = [back EXCEPT ![cur].buf = Append(@, response)]
    /\ Logged(Ev("SendResponse", self, cur, <<>>, response.Alloc, cmdPool))
    /\ execPc' = "sendFinal"
    /\ UNCHANGED <<pinned, createRet, loop, finishedChan, cur, response, k,
                   ctorVars, reqs, recvd, dones, callerVars, chansClosed>>
    /\ UNCHANGED <<fleetVars, frameVars>>

\* request.backChan <- response   (both branches of `if response.Alloc != vk.Success`)
ExecSendResponse(self) ==
    /\ execPc = "sendResponse"
    /\ Len(back[cur].buf) < BackChanCap
    /\ back' = [back EXCEPT ![cur].buf = Append(@, response)]
    /\ Logged(Ev("SendResponse", self, cur, <<>>, response.Alloc, cmdPool))
    /\ execPc' = "sendFinal"
    /\ UNCHANGED <<pinned, createRet, loop, finishedChan, cur, response, k,
                   ctorVars, reqs, recvd, dones, callerVars, chansClosed>>
    /\ UNCHANGED <<fleetVars, frameVars>>

\* // Send the response back.
\* request.backChan <- CommandPoolThreadResponse{}
ExecSendFinal(self) ==
    /\ execPc = "sendFinal"
    /\ Len(back[cur].buf) < BackChanCap
    /\ back' = [back EXCEPT ![cur].buf = Append(@, ZeroResponse)]
    /\ Logged(Ev("SendResponse", self, cur, <<>>, ZeroResponse.Alloc, cmdPool))
    /\ execPc' = "closeBack"
    /\ UNCHANGED <<pinned, createRet, loop, finishedChan, cur, response, k,
                   ctorVars, reqs, recvd, dones, callerVars, chansClosed>>
    /\ UNCHANGED <<fleetVars, frameVars>>

\* close(request.backChan), end of the case, and the next test of `for loop`
ExecCloseBack(self) ==
    /\ execPc = "closeBack"
    /\ back' = [back EXCEPT ![cur].closed = TRUE]
    /\ reqs' = [reqs EXCEPT ![cur].status = "done"]
    /\ Logged(Ev("CloseBackChan", self, cur, <<>>, vkSuccess, cmdPool))
    /\ cur' = 0
    /\ response' = ZeroResponse
    /\ k' = 0
    /\ execPc' = LoopTest(loop)
    /\ UNCHANGED <<pinned, createRet, loop, finishedChan, ctorVars,
                   recvd, dones, callerVars, chansClosed>>
    /\ UNCHANGED <<fleetVars, frameVars>>

\* Variant of ExecDestroyPool: the pool is destroyed inside the select's
\* shutdown case and the executor goes on selecting
ExecDestroyPool_InsideLoop(self) ==
    /\ execPc = "afterLoop"
    /\ IF createRet = vkSuccess
          THEN Logged(Ev("DestroyCommandPool", self, 0, <<>>, vkSuccess, cmdPool))
          ELSE UNCHANGED log
    /\ execPc' = IF createRet = vkSuccess THEN "select" ELSE "sendFinished"
    /\ UNCHANGED <<pinned, createRet, loop, finishedChan, cur, response, k,
                   ctorVars, reqs, back, recvd, dones, callerVars, chansClosed>>
    /\ UNCHANGED <<fleetVars, frameVars>>

\* if ret == vk.Success { vk.DestroyCommandPool(device, cmdPool, allocator) }
ExecDestroyPool(self) ==
    /\ execPc = "afterLoop"
    /\ IF createRet = vkSuccess
          THEN Logged(Ev("DestroyCommandPool", self, 0, <<>>, vkSuccess, cmdPool))
          ELSE UNCHANGED log
    /\ execPc' = "sendFinished"
    /\ UNCHANGED <<pinned, createRet, loop, finishedChan, cur, response, k,
                   ctorVars, reqs, back, recvd, dones, callerVars, chansClosed>>
    /\ UNCHANGED <<fleetVars, frameVars>>

\* Variant of ExecSendFinished: the completion channel has a buffer, so the
\* send completes without a receiver
ExecSendFinished_Buffered(self) ==
    /\ execPc = "sendFinished"
    /\ IF finishedChan # 0
          THEN /\ Logged(Ev("SendFinished", self, 0, <<>>, vkSuccess, cmdPool))
               /\ execPc' = "closeFinished"
          ELSE /\ execPc' = "exit"
               /\ UNCHANGED log
    /\ UNCHANGED <<pinned, createRet, loop, finishedChan, cur, response, k,
                   ctorVars, reqs, back, recvd, dones, callerVars, chansClosed>>
    /\ UNCHANGED <<fleetVars, frameVars>>

\* if finishedChan != nil { finishedChan <- struct{}{} ...
\* The completion channel is unbuffered (make(chan struct{}, 0)): the send
\* completes only together with a receive by the caller that holds it.
ExecSendFinished(self) ==
    /\ execPc = "sendFinished"
    /\ IF finishedChan # 0
          THEN /\ callerPc[dones[finishedChan].caller] = "idle"
               /\ dones' = [dones EXCEPT ![finishedChan].received = TRUE]
               /\ Logged(Ev("SendFinished", self, 0, <<>>, vkSuccess, cmdPool))
               /\ execPc' = "closeFinished"
          ELSE /\ execPc' = "exit"
               /\ UNCHANGED <<dones, log>>
    /\ UNCHANGED <<pinned, createRet, loop, finishedChan, cur, response, k,
                   ctorVars, reqs, back, recvd, callerVars, chansClosed>>
    /\ UNCHANGED <<fleetVars, frameVars>>

\* ... close(finishedChan) }
ExecCloseFinished(self) ==
    /\ execPc = "closeFinished"
    /\ dones' = [dones EXCEPT ![finishedChan].closed = TRUE]
    /\ Logged(Ev("CloseFinishedChan", self, 0, <<>>, vkSuccess, cmdPool))
    /\ execPc' = "exit"
    /\ UNCHANGED <<pinned, createRet, loop, finishedChan, cur, response, k,
                   ctorVars, reqs, back, recvd, callerVars, chansClosed>>
    /\ UNCHANGED <<fleetVars, frameVars>>

\* the goroutine's function returns and its deferred calls run:
\* runtime.UnlockOSThread(), close(signalFinishedChan), close(requestChan)
ExecExit(self) ==
    /\ execPc = "exit"
    /\ pinned' = FALSE
    /\ chansClosed' = TRUE
    /\ Logged(Ev("Exit", self, 0, <<>>, vkSuccess, cmdPool))
    /\ execPc' = "done"
    /\ UNCHANGED <<createRet, loop, finishedChan, cur, response, k,
                   ctorVars, reqs, back, recvd, dones, callerVars>>
    /\ UNCHANGED <<fleetVars, frameVars>>

ExecutorStep(self) ==
    \/ ExecLock(self)
    \/ ExecCreate(self)
    \/ ExecSendCreateResult(self)
    \/ ExecRecvShutdown(self)
    \/ ExecRecvRequest(self)
    \/ ExecFree(self)
    \/ ExecAlloc(self)
    \/ ExecRecord(self)
    \/ ExecRecordReenters(self)
    \/ ExecSendResponse(self)
    \/ ExecSendFinal(self)
    \/ ExecCloseBack(self)
    \/ ExecDestroyPool(self)
    \/ ExecSendFinished(self)
    \/ ExecCloseFinished(self)
    \/ ExecExit(self)

\* ---------------------------------------------------- the caller goroutines
\* Variant of CallerSubmit: Submit frees req.Buffers itself before sending
CallerSubmit_FreesOnCaller(self) ==
    /\ cpt
    /\ callerPc[self] = "idle"
    /\ \E nfree \in 0..(MaxWork - WorkStarted - 1) :
       \E n \in 0..(MaxWork - WorkStarted - 1 - nfree) :
          /\ reqs' = Append(reqs, [caller |-> self,
                                   Buffers |-> FreeBatch(nfree),
                                   Alloc |-> [CommandBufferCount |-> n,
                                              CommandPool |-> ForeignPool],
                                   status |-> "offered"])
          /\ IF nfree > 0
                THEN Logged(Ev("FreeCommandBuffers", self, Len(reqs) + 1,
                               FreeBatch(nfree), vkSuccess, cmdPool))
                ELSE UNCHANGED log
    /\ back' = Append(back, [buf |-> <<>>, closed |-> FALSE])
    /\ recvd' = Append(recvd, <<>>)
    /\ callerPc' = [callerPc EXCEPT ![self] = "submit"]
    /\ callerArg' = [callerArg EXCEPT ![self] = Len(reqs) + 1]
    /\ UNCHANGED <<execVars, ctorVars, dones, chansClosed>>
    /\ UNCHANGED <<fleetVars, frameVars>>

\* func (cpt *CommandPoolThread) Submit(req) : c := make(chan ..., 1);
\* req.backChan = c; then the caller stands at `cpt.rChan <- req`
CallerSubmit(self) ==
    /\ cpt
    /\ callerPc[self] = "idle"
    /\ \E nfree \in 0..(MaxWork - WorkStarted - 1) :
       \E n \in 0..(MaxWork - WorkStarted - 1 - nfree) :
          /\ reqs' = Append(reqs, [caller |-> self,
                                   Buffers |-> FreeBatch(nfree),
                                   Alloc |-> [CommandBufferCount |-> n,
                                              CommandPool |-> ForeignPool],
                                   status |-> "offered"])
    /\ back' = Append(back, [buf |-> <<>>, closed |-> FALSE])
    /\ recvd' = Append(recvd, <<>>)
    /\ callerPc' = [callerPc EXCEPT ![self] = "submit"]
    /\ callerArg' = [callerArg EXCEPT ![self] = Len(reqs) + 1]
    /\ UNCHANGED <<execVars, ctorVars, dones, chansClosed, log>>
    /\ UNCHANGED <<fleetVars, frameVars>>

\* func (cpt *CommandPoolThread) Destroy() : c := make(chan struct{}, 0);
\* then the caller stands at `cpt.sfChan <- c`
CallerDestroy(self) ==
    /\ cpt
    /\ callerPc[self] = "idle"
    /\ WorkStarted + 1 <= MaxWork
    /\ dones' = Append(dones, [caller |-> self, accepted |-> FALSE,
                               received |-> FALSE, closed |-> FALSE])
    /\ callerPc' = [callerPc EXCEPT ![self] = "destroy"]
    /\ callerArg' = [callerArg EXCEPT ![self] = Len(dones) + 1]
    /\ UNCHANGED <<execVars, ctorVars, reqs, back, recvd, chansClosed, log>>
    /\ UNCHANGED <<fleetVars, frameVars>>

\* a caller receives from the reply channel a returned Submit call gave it.
\* Callers choose when to receive, so a pending value may stay in the buffer.
\* (A receive from the closed, drained channel returns the zero value at once
\* and changes nothing the executor can see; it is not a step of the model.)
CallerReceive(self) ==
    /\ callerPc[self] = "idle"
    /\ \E r \in 1..Len(reqs) :
          /\ reqs[r].caller = self
          /\ reqs[r].status # "offered"
          /\ Len(back[r].buf) > 0
          /\ recvd' = [recvd EXCEPT ![r] = Append(@, Head(back[r].buf))]
          /\ back' = [back EXCEPT ![r].buf = Tail(@)]
    /\ UNCHANGED <<execVars, ctorVars, reqs, dones, callerVars, chansClosed, log>>
    /\ UNCHANGED <<fleetVars, frameVars>>

\* Variant of CallerPanic: the send on the closed channel returns as if the
\* call had been accepted
CallerPanic_Accepted(self) ==
    /\ callerPc[self] \in {"submit", "destroy"}
    /\ chansClosed
    /\ callerPc' = [callerPc EXCEPT ![self] = "idle"]
    /\ UNCHANGED <<execVars, ctorVars, reqs, back, recvd, dones, callerArg,
                   chansClosed, log>>
    /\ UNCHANGED <<fleetVars, frameVars>>

\* a send on a closed channel panics: the caller's `cpt.rChan <- req` or
\* `cpt.sfChan <- c` once the executor's deferred close calls have run
CallerPanic(self) ==
    /\ callerPc[self] \in {"submit", "destroy"}
    /\ chansClosed
    /\ callerPc' = [callerPc EXCEPT ![self] = "panic"]
    /\ UNCHANGED <<execVars, ctorVars, reqs, back, recvd, dones, callerArg,
                   chansClosed, log>>
    /\ UNCHANGED <<fleetVars, frameVars>>

CallerStep(self) ==
    \/ CallerSubmit(self)
    \/ CallerDestroy(self)
    \/ CallerReceive(self)
    \/ CallerPanic(self)

Next ==
    \/ ExecutorStep(Executor)
    \/ \E c \in Callers : CallerStep(c)

Spec == Start /\ [][Next]_vars

\* The executor goroutine is scheduled and every native call and every callback
\* it makes returns: a step of the executor that can be taken is taken.
\* Nothing is assumed about the callers.
ExecutorRuns == WF_vars(ExecutorStep(Executor))
SpecExecutorRuns == Spec /\ ExecutorRuns

\* The select statement chooses among its ready cases pseudo-randomly: a case
\* that is ready again and again is chosen eventually.  The shutdown case is
\* ready only while the executor stands at the select, so this is strong
\* fairness of that case.
ShutdownCaseFair == SF_vars(ExecRecvShutdown(Executor))

\* Callers that are free to receive a held response do so.  The code does not
\* oblige them to; a behaviour allowed with this assumption is allowed without.
CallersReceive == \A c \in Callers : WF_vars(CallerReceive(c))

SpecSelectFair == Spec /\ ExecutorRuns /\ ShutdownCaseFair /\ CallersReceive

\* ------------------------------------ several command pool threads at once
\* Variant of FleetNew: requestChan and signalFinishedChan are package-level
\* channels made once, which every goroutine receives from
FleetNew_SharedChannels ==
    /\ Len(goroutines) < MaxThreads
    /\ \E ret \in Results :
          LET requestChan == 1
              signalFinishedChan == 2
          IN  /\ goroutines' = Append(goroutines,
                     [requestChan |-> requestChan,
                      signalFinishedChan |-> signalFinishedChan,
                      ret |-> ret,
                      state |-> IF ret = vkSuccess THEN "select" ELSE "ended"])
              /\ handles' = Append(handles,
                     IF ret = vkSuccess
                        THEN [rChan |-> requestChan, sfChan |-> signalFinishedChan]
                        ELSE NilHandle)
    /\ chansMade' = chansMade + 3
    /\ UNCHANGED <<submitted, shutdowns, poolThreadVars, frameVars>>

\* func NewCommandPoolThread(...): createResultChan, requestChan and
\* signalFinishedChan are made by this call, `go func()` starts one goroutine
\* that captures them, and the handle holds the same two channels iff
\* ret == vk.Success.  On failure the goroutine skips the loop and returns.
FleetNew ==
    /\ Len(goroutines) < MaxThreads
    /\ \E ret \in Results :
          LET requestChan == chansMade + 2
              signalFinishedChan == chansMade + 3
          IN  /\ goroutines' = Append(goroutines,
                     [requestChan |-> requestChan,
                      signalFinishedChan |-> signalFinishedChan,
                      ret |-> ret,
                      state |-> IF ret = vkSuccess THEN "select" ELSE "ended"])
              /\ handles' = Append(handles,
                     IF ret = vkSuccess
                        THEN [rChan |-> requestChan, sfChan |-> signalFinishedChan]
                        ELSE NilHandle)
    /\ chansMade' = chansMade + 3
    /\ UNCHANGED <<submitted, shutdowns, poolThreadVars, frameVars>>

\* cpt.Submit(req) on handle h: the caller stands at `cpt.rChan <- req`
FleetSubmit(h) ==
    /\ handles[h] # NilHandle
    /\ Len(submitted) < MaxSubmits
    /\ submitted' = Append(submitted,
                           [handle |-> h, chan |-> handles[h].rChan, recvBy |-> <<>>])
    /\ UNCHANGED <<chansMade, goroutines, handles, shutdowns, poolThreadVars, frameVars>>

\* cpt.Destroy() on handle h: the caller stands at `cpt.sfChan <- c`
FleetDestroy(h) ==
    /\ handles[h] # NilHandle
    /\ handles[h].sfChan \notin shutdowns
    /\ shutdowns' = shutdowns \cup {handles[h].sfChan}
    /\ UNCHANGED <<chansMade, goroutines, handles, submitted, poolThreadVars, frameVars>>

\* case request := <-requestChan: in goroutine g (and the whole case body,
\* after which g stands at its select again)
FleetRecvRequest(g) ==
    /\ goroutines[g].state = "select"
    /\ \E q \in DOMAIN submitted :
          /\ submitted[q].chan = goroutines[g].requestChan
          /\ submitted[q].recvBy = <<>>
          /\ submitted' = [submitted EXCEPT ![q].recvBy = Append(@, g)]
    /\ UNCHANGED <<chansMade, goroutines, handles, shutdowns, poolThreadVars, frameVars>>

\* case finishedChan = <-signalFinishedChan: in goroutine g, which then leaves
\* its loop and returns
FleetRecvShutdown(g) ==
    /\ goroutines[g].state = "select"
    /\ goroutines[g].signalFinishedChan \in shutdowns
    /\ shutdowns' = shutdowns \ {goroutines[g].signalFinishedChan}
    /\ goroutines' = [goroutines EXCEPT ![g].state = "ended"]
    /\ UNCHANGED <<chansMade, handles, submitted, poolThreadVars, frameVars>>

FleetNext ==
    \/ FleetNew
    \/ \E h \in DOMAIN handles : FleetSubmit(h)
    \/ \E h \in DOMAIN handles : FleetDestroy(h)
    \/ \E g \in DOMAIN goroutines : FleetRecvRequest(g)
    \/ \E g \in DOMAIN goroutines : FleetRecvShutdown(g)

FleetSpec == Start /\ [][FleetNext]_vars

\* ------------------------------------------------------- the frame loop
\* setup(): app.recreatePipeline(), createSemaphores(), createFences()
MainSetup ==
    /\ framePc = "setup"
    /\ \E n \in 1..MaxImages :
          /\ swapchainImages' = n
          /\ imagesInFlight' = MakeFences(n)
    /\ fenceSignaled' = CreateFences
    /\ framePc' = "poll"
    /\ UNCHANGED <<currentFrame, fencePending, imageIndex, framebufferResize,
                   minimized, entryFrame, entryResize, recreated, submittedSince,
                   lastReturn, poolThreadVars, fleetVars>>

\* mainLoop: `for !app.window.ShouldClose()` ends
MainClose ==
    /\ framePc = "poll"
    /\ framePc' = "closed"
    /\ UNCHANGED <<currentFrame, fenceSignaled, fencePending, imagesInFlight,
                   swapchainImages, imageIndex, framebufferResize, minimized,
                   entryFrame, entryResize, recreated, submittedSince, lastReturn,
                   poolThreadVars, fleetVars>>

\* mainLoop: glfw.PollEvents(), in which the framebuffer-size callback may run
\* (always when the window is minimized or restored), then app.drawFrame()
\* is entered
MainPollEvents ==
    /\ framePc = "poll"
    /\ \E m \in BOOLEAN, resized \in BOOLEAN :
          /\ minimized' = m
          /\ framebufferResize' = (framebufferResize \/ resized \/ m # minimized)
    /\ entryFrame' = currentFrame
    /\ entryResize' = framebufferResize'
    /\ recreated' = FALSE
    /\ framePc' = "waitFrame"
    /\ UNCHANGED <<currentFrame, fenceSignaled, fencePending, imagesInFlight,
                   swapchainImages, imageIndex, submittedSince, lastReturn,
                   poolThreadVars, fleetVars>>

\* vk.WaitForFences(device, 1, app.inFlightFences[app.currentFrame:], ...)
DrawWaitFrame ==
    /\ framePc = "waitFrame"
    /\ fenceSignaled[currentFrame]
    /\ framePc' = "acquire"
    /\ UNCHANGED <<currentFrame, fenceSignaled, fencePending, imagesInFlight,
                   swapchainImages, imageIndex, framebufferResize, minimized,
                   entryFrame, entryResize, recreated, submittedSince, lastReturn,
                   poolThreadVars, fleetVars>>

\* ret := vk.AcquireNextImage(...); ErrorOutOfDate: recreatePipeline and
\* return; another error: panic
DrawAcquire ==
    /\ framePc = "acquire"
    /\ \E ret \in FrameResults :
          IF ret = vkErrorOutOfDate
             THEN framePc' = "recreateAcquire" /\ UNCHANGED imageIndex
             ELSE IF ret \notin {vkSuccess, vkSuboptimal}
                     THEN framePc' = "panic" /\ UNCHANGED imageIndex
                     ELSE /\ framePc' = "waitImage"
                          /\ imageIndex' \in 0..(swapchainImages - 1)
    /\ UNCHANGED <<currentFrame, fenceSignaled, fencePending, imagesInFlight,
                   swapchainImages, framebufferResize, minimized, entryFrame,
                   entryResize, recreated, submittedSince, lastReturn,
                   poolThreadVars, fleetVars>>

\* if app.imagesInFlight[imageIndex] != null { vk.WaitForFences(...) }
\* app.imagesInFlight[imageIndex] = app.inFlightFences[app.currentFrame]
DrawWaitImage ==
    /\ framePc = "waitImage"
    /\ imagesInFlight[imageIndex + 1] # NullFence =>
          fenceSignaled[imagesInFlight[imageIndex + 1] - 1]
    /\ imagesInFlight' = [imagesInFlight EXCEPT ![imageIndex + 1] = currentFrame + 1]
    /\ framePc' = "reset"
    /\ UNCHANGED <<currentFrame, fenceSignaled, fencePending, swapchainImages,
                   imageIndex, framebufferResize, minimized, entryFrame,
                   entryResize, recreated, submittedSince, lastReturn,
                   poolThreadVars, fleetVars>>

\* vk.ResetFences(device, 1, app.inFlightFences[app.currentFrame:])
DrawResetFences ==
    /\ framePc = "reset"
    /\ fenceSignaled' = [fenceSignaled EXCEPT ![currentFrame] = FALSE]
    /\ framePc' = "submit"
    /\ UNCHANGED <<currentFrame, fencePending, imagesInFlight, swapchainImages,
                   imageIndex, framebufferResize, minimized, entryFrame,
                   entryResize, recreated, submittedSince, lastReturn,
                   poolThreadVars, fleetVars>>

\* MustSucceed(vk.QueueSubmit(queue, 1, submitInfos, inFlightFences[currentFrame]))
DrawQueueSubmit ==
    /\ framePc = "submit"
    /\ \E ret \in {vkSuccess, vkErrorDeviceLost} :
          IF ret = vkSuccess
             THEN /\ fencePending' = [fencePending EXCEPT ![currentFrame] = TRUE]
                  /\ submittedSince' = [submittedSince EXCEPT ![currentFrame] = TRUE]
                  /\ framePc' = "present"
             ELSE /\ framePc' = "panic"
                  /\ UNCHANGED <<fencePending, submittedSince>>
    /\ UNCHANGED <<currentFrame, fenceSignaled, imagesInFlight, swapchainImages,
                   imageIndex, framebufferResize, minimized, entryFrame,
                   entryResize, recreated, lastReturn, poolThreadVars, fleetVars>>

\* ret = vk.QueuePresent(...)
\* if ret == ErrorOutOfDate || ret == Suboptimal || app.framebufferResize {
\*     app.recreatePipeline() } else if ret != vk.Success { panic(...) }
DrawQueuePresent ==
    /\ framePc = "present"
    /\ \E ret \in FrameResults :
          framePc' = IF ret \in {vkErrorOutOfDate, vkSuboptimal} \/ framebufferResize
                        THEN "recreatePresent"
                        ELSE IF ret # vkSuccess THEN "panic" ELSE "advance"
    /\ UNCHANGED <<currentFrame, fenceSignaled, fencePending, imagesInFlight,
                   swapchainImages, imageIndex, framebufferResize, minimized,
                   entryFrame, entryResize, recreated, submittedSince, lastReturn,
                   poolThreadVars, fleetVars>>

\* Variant of DrawAdvance: the increment without the modulo
DrawAdvance_NoModulo ==
    /\ framePc = "advance"
    /\ currentFrame' = currentFrame + 1
    /\ lastReturn' = "presented"
    /\ framePc' = "poll"
    /\ UNCHANGED <<fenceSignaled, fencePending, imagesInFlight, swapchainImages,
                   imageIndex, framebufferResize, minimized, entryFrame,
                   entryResize, recreated, submittedSince, poolThreadVars, fleetVars>>

\* app.currentFrame = (app.currentFrame + 1) % app.FramesInFlight, and return
DrawAdvance ==
    /\ framePc = "advance"
    /\ currentFrame' = (currentFrame + 1) % FramesInFlight
    /\ lastReturn' = "presented"
    /\ framePc' = "poll"
    /\ UNCHANGED <<fenceSignaled, fencePending, imagesInFlight, swapchainImages,
                   imageIndex, framebufferResize, minimized, entryFrame,
                   entryResize, recreated, submittedSince, poolThreadVars, fleetVars>>

\* recreatePipeline: `for width == 0 || height == 0 { ...; glfw.WaitEvents() }`,
\* in which the framebuffer-size callback runs when the size changes
RecreateWaitEvents ==
    /\ framePc \in {"recreateAcquire", "recreatePresent"}
    /\ minimized
    /\ \E m \in BOOLEAN :
          /\ minimized' = m
          /\ framebufferResize' = (framebufferResize \/ m # minimized)
    /\ UNCHANGED <<framePc, currentFrame, fenceSignaled, fencePending,
                   imagesInFlight, swapchainImages, imageIndex, entryFrame,
                   entryResize, recreated, submittedSince, lastReturn,
                   poolThreadVars, fleetVars>>

\* recreatePipeline: app.framebufferResize = false, before vk.DeviceWaitIdle
RecreateClearResize ==
    /\ framePc \in {"recreateAcquire", "recreatePresent"}
    /\ ~minimized
    /\ framebufferResize' = FALSE
    /\ framePc' = IF framePc = "recreateAcquire" THEN "idleAcquire" ELSE "idlePresent"
    /\ UNCHANGED <<currentFrame, fenceSignaled, fencePending, imagesInFlight,
                   swapchainImages, imageIndex, minimized, entryFrame, entryResize,
                   recreated, submittedSince, lastReturn, poolThreadVars, fleetVars>>

\* Variant of RecreateSwapchain: app.imagesInFlight is left as it was
RecreateSwapchain_KeepsInFlight ==
    /\ framePc \in {"idleAcquire", "idlePresent"}
    /\ \A f \in Frames : ~fencePending[f]
    /\ \E n \in 1..MaxImages : swapchainImages' = n
    /\ submittedSince' = [f \in Frames |-> FALSE]
    /\ recreated' = TRUE
    /\ IF framePc = "idleAcquire"
          THEN framePc' = "poll" /\ lastReturn' = "outOfDate"
          ELSE framePc' = "advance" /\ UNCHANGED lastReturn
    /\ UNCHANGED <<currentFrame, fenceSignaled, fencePending, imagesInFlight, imageIndex,
                   framebufferResize, minimized, entryFrame, entryResize,
                   poolThreadVars, fleetVars>>

\* recreatePipeline: vk.DeviceWaitIdle(device) returns once no submitted work
\* is executing; NewPipeline makes a swapchain with some number of images;
\* app.imagesInFlight = make([]vk.Fence, len(app.pipeline.SwapchainImages)).
\* Called after AcquireNextImage, drawFrame then returns.
RecreateSwapchain ==
    /\ framePc \in {"idleAcquire", "idlePresent"}
    /\ \A f \in Frames : ~fencePending[f]
    /\ \E n \in 1..MaxImages :
          /\ swapchainImages' = n
          /\ imagesInFlight' = MakeFences(n)
    /\ submittedSince' = [f \in Frames |-> FALSE]
    /\ recreated' = TRUE
    /\ IF framePc = "idleAcquire"
          THEN framePc' = "poll" /\ lastReturn' = "outOfDate"
          ELSE framePc' = "advance" /\ UNCHANGED lastReturn
    /\ UNCHANGED <<currentFrame, fenceSignaled, fencePending, imageIndex,
                   framebufferResize, minimized, entryFrame, entryResize,
                   poolThreadVars, fleetVars>>

\* the device finishes the queue submission that signals fence f
DeviceComplete(f) ==
    /\ fencePending[f]
    /\ fencePending' = [fencePending EXCEPT ![f] = FALSE]
    /\ fenceSignaled' = [fenceSignaled EXCEPT ![f] = TRUE]
    /\ UNCHANGED <<framePc, currentFrame, imagesInFlight, swapchainImages,
                   imageIndex, framebufferResize, minimized, entryFrame,
                   entryResize, recreated, submittedSince, lastReturn,
                   poolThreadVars, fleetVars>>

MainStep ==
    \/ MainSetup
    \/ MainClose
    \/ MainPollEvents
    \/ DrawWaitFrame
    \/ DrawAcquire
    \/ DrawWaitImage
    \/ DrawResetFences
    \/ DrawQueueSubmit
    \/ DrawQueuePresent
    \/ DrawAdvance
    \/ RecreateWaitEvents
    \/ RecreateClearResize
    \/ RecreateSwapchain

FrameNext ==
    \/ MainStep
    \/ \E f \in Frames : DeviceComplete(f)

FrameSpec == Start /\ [][FrameNext]_vars

\* The device completes submitted work, and a vk.WaitForFences call returns
\* once its fence is signaled.
DeviceCompletes == \A f \in Frames : WF_vars(DeviceComplete(f))
WaitsReturn == WF_vars(DrawWaitFrame) /\ WF_vars(DrawWaitImage)
FrameSpecDeviceCompletes == FrameSpec /\ DeviceCompletes /\ WaitsReturn


\* ------------------------------------------------ reading the history
NativeOps == {"CreateCommandPool", "FreeCommandBuffers", "AllocateCommandBuffers",
              "Commands", "DestroyCommandPool"}

Requests == 1..Len(reqs)

\* positions of the history where `op` ran for request r (r = 0: for no request)
At(op, r) == {i \in DOMAIN log : log[i].op = op /\ log[i].req = r}
Ran(op) == {i \in DOMAIN log : log[i].op = op}

Received(r) == reqs[r].status # "offered"

\* every value the executor has put on r's reply channel, in order
Sent(r) == recvd[r] \o back[r].buf

\* --------------------------------------------------------------- claims

\* C1: every native call touching the pool or its command buffers
\* (CreateCommandPool, FreeCommandBuffers, AllocateCommandBuffers, each
\* Commands callback, DestroyCommandPool) runs on the executor goroutine,
\* never on the goroutine of a caller of Submit or Destroy.
C1_NativeCallsOnExecutor ==
    \A i \in DOMAIN log : log[i].op \in NativeOps => log[i].thread = Executor

\* two different callers have used the handle, one request was freed,
\* allocated or recorded and the pool was destroyed
C1_Witness ==
    /\ Ran("DestroyCommandPool") # {}
    /\ \E r \in Requests :
          /\ At("Commands", r) # {} \/ At("FreeCommandBuffers", r) # {}
          /\ \E d \in 1..Len(dones) : dones[d].accepted /\ dones[d].caller # reqs[r].caller

\* C2: requests never interleave: at most one request is being processed,
\* and everything the executor does for one request is contiguous in its
\* history: no receive of another request or of the shutdown signal, and no
\* step of another request, lies between two steps of the same request.
C2_NoInterleaving ==
    /\ Cardinality({r \in Requests : reqs[r].status = "processing"}) <= 1
    /\ \A i, j \in DOMAIN log :
          (i < j /\ log[i].req # 0 /\ log[i].req = log[j].req)
              => \A m \in i..j : log[m].req = log[i].req
    /\ \A r \in Requests :
          reqs[r].status = "processing" =>
              /\ cur = r
              /\ log[Len(log)].req = r

\* a request is in the middle of its processing while another caller is
\* blocked in Submit with the next one
C2_Witness ==
    \E a, b \in Requests :
        /\ reqs[a].status = "processing"
        /\ At("AllocateCommandBuffers", a) # {}
        /\ reqs[b].status = "offered"
        /\ reqs[a].caller # reqs[b].caller

\* C3: FIFO.  Requests a and b of one caller, a submitted first, are received
\* in that order; and whenever the executor received a before b, a's
\* response was sent and a's reply channel closed before b was received.
C3_Fifo ==
    \A a, b \in Requests :
        /\ (a < b /\ reqs[a].caller = reqs[b].caller /\ Received(b))
              => /\ Received(a)
                 /\ \A i \in At("RecvRequest", a), j \in At("RecvRequest", b) : i < j
        /\ (Received(a) /\ Received(b)
              /\ \E i \in At("RecvRequest", a), j \in At("RecvRequest", b) : i < j)
              => \A j \in At("RecvRequest", b) :
                    /\ \E i \in At("SendResponse", a) : i < j
                    /\ \E i \in At("CloseBackChan", a) : i < j

\* one caller submitted a (allocating, and its allocation failed) and then b,
\* and the executor has received b
C3_Witness ==
    \E a, b \in Requests :
        /\ a < b
        /\ reqs[a].caller = reqs[b].caller
        /\ reqs[a].Alloc.CommandBufferCount > 0
        /\ \E i \in At("AllocateCommandBuffers", a) : log[i].ret # vkSuccess
        /\ Received(b)

\* C4: for every request the executor sends exactly one value on the
\* reply channel and then closes it; there is never a second send.
C4_ExactlyOneSend ==
    \A r \in Requests :
        /\ Cardinality(At("SendResponse", r)) <= 1
        /\ back[r].closed => Cardinality(At("SendResponse", r)) = 1

\* the request's allocation succeeded / failed
AllocOk(r) == \E i \in At("AllocateCommandBuffers", r) : log[i].ret = vkSuccess
AllocFailed(r) == \E i \in At("AllocateCommandBuffers", r) : log[i].ret # vkSuccess

\* the Commands calls made for request r with index kk
CommandsAt(r, kk) == {i \in At("Commands", r) : log[i].bufs[1] = kk}

\* C5: batch independence.  For a request allocating N > 0 buffers whose
\* allocation succeeded, Commands is never called twice for an index and,
\* once a response has been sent, was called exactly once for every index
\* 0..N-1, whatever it returned; the response the caller receives (the first
\* value on the reply channel) has N buffers and N outcomes, and outcome kk
\* is what Commands returned for (kk, buffer kk).
C5_BatchIndependence ==
    \A r \in Requests :
        LET N == reqs[r].Alloc.CommandBufferCount IN
        (N > 0 /\ AllocOk(r)) =>
            /\ \A kk \in 0..(N - 1) : Cardinality(CommandsAt(r, kk)) <= 1
            /\ \A i \in At("Commands", r) : log[i].bufs[1] \in 0..(N - 1)
            /\ Sent(r) # <<>> =>
                  /\ \A kk \in 0..(N - 1) : Cardinality(CommandsAt(r, kk)) = 1
                  /\ Len(Sent(r)[1].Buffers) = N
                  /\ Len(Sent(r)[1].Commands) = N
                  /\ Sent(r)[1].Alloc = vkSuccess
                  /\ \A kk \in 0..(N - 1) : \A i \in CommandsAt(r, kk) :
                        /\ Sent(r)[1].Commands[kk + 1] = log[i].ret
                        /\ Sent(r)[1].Buffers[kk + 1] = log[i].bufs[2]
                        /\ Sent(r)[1].Buffers[kk + 1] # NullHandle

\* the caller has received the response of a batch of two whose first
\* recording failed and whose second succeeded
C5_Witness ==
    \E r \in Requests :
        /\ reqs[r].Alloc.CommandBufferCount = 2
        /\ recvd[r] # <<>>
        /\ recvd[r][1].Commands = <<SomeError, NilError>>

\* C6: when AllocateCommandBuffers fails for a request with count N > 0, the
\* response carries the failure code, its buffer list is empty (length 0,
\* not N), its outcome list is empty, and Commands is never called.
C6_FailedAllocationIsEmpty ==
    \A r \in Requests :
        (reqs[r].Alloc.CommandBufferCount > 0 /\ AllocFailed(r)) =>
            /\ At("Commands", r) = {}
            /\ Sent(r) # <<>> =>
                  /\ Sent(r)[1].Alloc # vkSuccess
                  /\ Len(Sent(r)[1].Buffers) = 0
                  /\ Len(Sent(r)[1].Commands) = 0

\* C7: a request with count 0 and no Buffers gets the success code, no
\* buffers and no outcomes, in a single value; the executor calls neither
\* FreeCommandBuffers nor AllocateCommandBuffers nor Commands for it.
C7_EmptyRequest ==
    \A r \in Requests :
        (reqs[r].Alloc.CommandBufferCount = 0 /\ Len(reqs[r].Buffers) = 0) =>
            /\ At("FreeCommandBuffers", r) = {}
            /\ At("AllocateCommandBuffers", r) = {}
            /\ At("Commands", r) = {}
            /\ Len(Sent(r)) <= 1
            /\ \A i \in DOMAIN Sent(r) :
                  /\ Sent(r)[i].Alloc = vkSuccess
                  /\ Sent(r)[i].Buffers = <<>>
                  /\ Sent(r)[i].Commands = <<>>
            /\ reqs[r].status = "done" => Len(Sent(r)) = 1

\* the caller has received the response of an empty request
C7_Witness ==
    \E r \in Requests :
        /\ reqs[r].Alloc.CommandBufferCount = 0
        /\ Len(reqs[r].Buffers) = 0
        /\ reqs[r].status = "done"
        /\ Len(recvd[r]) = 1

\* C8: a request with count 0 and a non-empty Buffers list causes exactly
\* one FreeCommandBuffers call, for the whole batch, no
\* AllocateCommandBuffers call and no Commands call, and its response is
\* empty (success code, no buffers, no outcomes).
C8_FreeOnlyRequest ==
    \A r \in Requests :
        (reqs[r].Alloc.CommandBufferCount = 0 /\ Len(reqs[r].Buffers) > 0) =>
            /\ Cardinality(At("FreeCommandBuffers", r)) <= 1
            /\ \A i \in At("FreeCommandBuffers", r) : log[i].bufs = reqs[r].Buffers
            /\ At("AllocateCommandBuffers", r) = {}
            /\ At("Commands", r) = {}
            /\ Len(Sent(r)) <= 1
            /\ \A i \in DOMAIN Sent(r) :
                  /\ Sent(r)[i] = ZeroResponse
                  /\ Cardinality(At("FreeCommandBuffers", r)) = 1

\* the caller has received the response of a request that only frees a
\* batch of two
C8_Witness ==
    \E r \in Requests :
        /\ reqs[r].Alloc.CommandBufferCount = 0
        /\ Len(reqs[r].Buffers) = 2
        /\ reqs[r].status = "done"
        /\ Len(recvd[r]) = 1

\* C9: DestroyCommandPool is issued at most once; it has been issued exactly
\* once when a caller has received from a completion channel; and no
\* further Destroy call is ever accepted, so none causes a second destroy.
C9_DestroyOnce ==
    /\ Cardinality(Ran("DestroyCommandPool")) <= 1
    /\ Cardinality(Ran("RecvShutdown")) <= 1
    /\ Cardinality({d \in 1..Len(dones) : dones[d].accepted}) <= 1
    /\ (\E d \in 1..Len(dones) : dones[d].received)
           => Cardinality(Ran("DestroyCommandPool")) = 1

\* two callers called Destroy; one has received the completion value and
\* the other's call was never accepted
C9_Witness ==
    \E d, e \in 1..Len(dones) :
        /\ dones[d].received
        /\ dones[d].caller # dones[e].caller
        /\ ~dones[e].accepted
        /\ execPc = "done"

\* C10: shutdown ordering.  From the receipt of the shutdown signal on, the
\* executor does exactly this, in this order: DestroyCommandPool, the send
\* on the completion channel, its close, exit; it receives no further
\* request; and the completion value is received only after the destroy.
ShutdownOrder ==
    <<"RecvShutdown", "DestroyCommandPool", "SendFinished", "CloseFinishedChan", "Exit">>

C10_ShutdownOrdering ==
    /\ \A s \in Ran("RecvShutdown") :
          /\ Len(log) - s + 1 <= Len(ShutdownOrder)
          /\ \A i \in s..Len(log) : log[i].op = ShutdownOrder[i - s + 1]
    /\ \A d \in 1..Len(dones) :
          dones[d].received =>
              \E i \in Ran("DestroyCommandPool"), j \in Ran("SendFinished") : i < j
    /\ execPc = "done" => cur = 0

\* the executor has shut down and exited while a caller was blocked in
\* Submit: that request was never received
C10_Witness ==
    /\ execPc = "done"
    /\ \E d \in 1..Len(dones) : dones[d].received
    /\ \E r \in Requests : ~Received(r)

\* CreateCommandPool has returned, with / without success
CreateOk == \E i \in Ran("CreateCommandPool") : log[i].ret = vkSuccess
CreateFailed == \E i \in Ran("CreateCommandPool") : log[i].ret # vkSuccess

\* the executor has left its loop (or never entered it)
PastLoop == execPc \in {"afterLoop", "sendFinished", "closeFinished", "exit", "done"}

\* C12: a request the executor has received is never cut short by shutdown:
\* while a request is being processed neither the shutdown signal has been
\* received nor the pool destroyed, and every received request was freed,
\* allocated, recorded, answered and its reply channel closed before the
\* shutdown signal was received and before DestroyCommandPool.
C12_ShutdownWaitsForRequest ==
    /\ \A r \in Requests :
          reqs[r].status = "processing" =>
              Ran("RecvShutdown") = {} /\ Ran("DestroyCommandPool") = {}
    /\ \A r \in Requests : \A s \in Ran("RecvShutdown") \cup Ran("DestroyCommandPool") :
          Received(r) =>
              /\ \E i \in At("CloseBackChan", r) : i < s
              /\ \A i \in DOMAIN log : log[i].req = r => i < s

\* a Destroy call is waiting while the executor, having allocated, recorded
\* and answered a request, is about to close its reply channel
C12_Witness ==
    /\ execPc = "closeBack"
    /\ At("Commands", cur) # {}
    /\ \E c \in Callers : callerPc[c] = "destroy"

\* C13: construction failure.  When CreateCommandPool fails, the constructor
\* returns that result and a nil handle, and the goroutine never enters its
\* loop: it receives no request and no shutdown signal, calls neither free,
\* allocate nor destroy, and runs to its end.
C13_ConstructionFailure ==
    CreateFailed =>
        /\ ctorPc = "returned" => (ctorRet # vkSuccess /\ ctorRet = createRet /\ ~cpt)
        /\ \A i \in DOMAIN log :
              log[i].op \notin {"RecvRequest", "RecvShutdown", "FreeCommandBuffers",
                                "AllocateCommandBuffers", "Commands",
                                "DestroyCommandPool"}
        /\ reqs = <<>> /\ dones = <<>>
        /\ execPc = "sendCreate" \/ PastLoop
        /\ execPc = "done" \/ ENABLED ExecutorStep(Executor)

\* the goroutine has ended after a failed CreateCommandPool
C13_Witness ==
    /\ CreateFailed
    /\ execPc = "done"
    /\ ctorPc = "returned"

\* C14: NewCommandPoolThread returns only after CreateCommandPool has
\* returned in the goroutine; it returns that call's result, and a non-nil
\* handle exactly when the result is vk.Success.
C14_ConstructorResult ==
    /\ ctorPc = "returned" =>
          /\ Cardinality(Ran("CreateCommandPool")) = 1
          /\ \A i \in Ran("CreateCommandPool") : ctorRet = log[i].ret
          /\ cpt <=> (ctorRet = vkSuccess)
    /\ ctorPc # "returned" => ~cpt

\* the constructor has returned a handle after a successful create
C14_Witness ==
    /\ ctorPc = "returned"
    /\ cpt
    /\ CreateOk

\* C15: thread pinning.  Every native call (create, free, allocate, Commands,
\* destroy) is made with the OS thread locked; once locked the thread stays
\* locked until the goroutine ends, which is after DestroyCommandPool when
\* the create succeeded and after the failed create otherwise; and the
\* goroutine never ends with the thread still locked.
C15_PinnedAroundPool ==
    /\ \A i \in DOMAIN log : log[i].op \in NativeOps => log[i].pinned
    /\ execPc \notin {"lock", "done"} => pinned
    /\ execPc = "done" =>
          /\ ~pinned
          /\ CreateOk => Ran("DestroyCommandPool") # {}
          /\ CreateOk \/ CreateFailed

\* the goroutine created the pool, destroyed it and ended, unlocked
C15_Witness ==
    /\ execPc = "done"
    /\ ~pinned
    /\ Ran("DestroyCommandPool") # {}

C20_ReentrantCallBlocks ==
    /\ \A i \in Ran("Commands") :
          log[i].ret \in HandleCalls =>
              /\ i = Len(log)
              /\ execPc = "inCallback"
              /\ cur = log[i].req
    /\ execPc = "inCallback" =>
          /\ log[Len(log)].op = "Commands" /\ log[Len(log)].ret \in HandleCalls
          /\ reqs[cur].status = "processing"
          /\ Sent(cur) = <<>> /\ ~back[cur].closed
          /\ ~chansClosed
          /\ Ran("RecvShutdown") = {} /\ Ran("DestroyCommandPool") = {}
          /\ ~ENABLED ExecutorStep(Executor)

\* the executor is stuck in such a callback while a caller waits in Destroy
C20_Witness ==
    /\ execPc = "inCallback"
    /\ \E c \in Callers : callerPc[c] = "destroy"

\* C17: every request the executor has taken from the submission channel
\* (its Submit call returned) eventually has a response on its reply channel,
\* whatever the callers do or do not do, unless the request's own callback
\* never returns; no accepted request is dropped.
C17_AcceptedIsAnswered ==
    \A r \in 1..MaxWork :
        (r \in Requests /\ Received(r))
            ~> \/ r \in Requests /\ Sent(r) # <<>>
               \/ execPc = "inCallback" /\ cur = r

\* a response of a request naming command buffers waits on the reply channel
\* and its caller has received nothing
C17_Witness ==
    \E r \in Requests :
        /\ Received(r)
        /\ reqs[r].Alloc.CommandBufferCount > 0
        /\ back[r].buf # <<>>
        /\ recvd[r] = <<>>

\* C18: the executor never waits at a send: whenever it stands at a send on a
\* reply channel or on a completion channel it can take that step at once,
\* whatever the callers are doing.
C18_NeverBlockedOnSend ==
    execPc \in {"sendResponse", "sendFinal", "sendFinished"} =>
        ENABLED ExecutorStep(Executor)

\* C19: a caller may stand in a later Submit without having received from an
\* earlier request of its own: the executor is never waiting at a reply send
\* of a request whose caller is standing in Submit.
C19_SubmitBeforeReceive ==
    \A a \in Requests :
        (/\ execPc \in {"sendResponse", "sendFinal"}
         /\ cur = a
         /\ Len(back[a].buf) = BackChanCap)
            => callerPc[reqs[a].caller] # "submit"

\* C11: once a caller stands in Destroy offering the shutdown signal, the
\* executor eventually receives it and destroys the pool (unless a callback
\* of the executor never returns).
C11_ShutdownNotStarved ==
    \A c \in Callers :
        (callerPc[c] = "destroy")
            ~> (Ran("DestroyCommandPool") # {} \/ execPc = "inCallback")

\* C21: the pool is destroyed only after the request stream is drained: when
\* the executor takes the shutdown signal, no caller stands in Submit with a
\* request the executor has not received (such a request is never received
\* afterwards, so it is still unprocessed when DestroyCommandPool is issued).
C21_DrainedBeforeDestroy ==
    [][(Ran("RecvShutdown") = {} /\ Ran("RecvShutdown")' # {}) =>
           \A r \in Requests : reqs[r].status # "offered"]_vars

\* C23: the steps of one request are strictly ordered: FreeCommandBuffers
\* before AllocateCommandBuffers; Commands only after a successful allocate,
\* for indices 0, 1, ..., N-1 in ascending order; and a response is sent only
\* after every callback has returned.
C23_StepsInOrder ==
    \A r \in Requests :
        /\ \A f \in At("FreeCommandBuffers", r), a \in At("AllocateCommandBuffers", r) :
              f < a
        /\ \A i \in At("Commands", r) :
              /\ \E a \in At("AllocateCommandBuffers", r) :
                    a < i /\ log[a].ret = vkSuccess
              /\ log[i].bufs[1] = Cardinality({j \in At("Commands", r) : j < i})
        /\ \A s \in At("SendResponse", r) :
              /\ \A i \in At("FreeCommandBuffers", r) \cup At("AllocateCommandBuffers", r)
                            \cup At("Commands", r) \cup At("RecvRequest", r) : i < s
              /\ \A i \in At("Commands", r) : log[i].ret \in Errors
              /\ AllocOk(r) =>
                    Cardinality(At("Commands", r)) = reqs[r].Alloc.CommandBufferCount

\* the response of a request for two command buffers has been sent
C23_Witness ==
    \E r \in Requests :
        /\ reqs[r].Alloc.CommandBufferCount = 2
        /\ Cardinality(At("Commands", r)) = 2
        /\ At("SendResponse", r) # {}

\* C24: no use after destroy: once DestroyCommandPool has been issued the
\* executor issues no further native call and invokes no Commands callback.
C24_NoUseAfterDestroy ==
    \A d \in Ran("DestroyCommandPool") :
        /\ \A i \in DOMAIN log :
              i > d => log[i].op \notin (NativeOps \cup {"Commands", "RecvRequest"})
        /\ execPc \in {"sendFinished", "closeFinished", "exit", "done"}
        /\ cur = 0

\* the pool has been destroyed after a request was processed, while another
\* caller stands in Submit
C24_Witness ==
    /\ Ran("DestroyCommandPool") # {}
    /\ \E r \in Requests : reqs[r].status = "done"
    /\ \E r \in Requests : reqs[r].status = "offered"

\* what caller c's pending call is: a request or a shutdown not yet accepted
PendingSubmit(c) ==
    /\ callerArg[c] \in Requests
    /\ reqs[callerArg[c]].caller = c
    /\ reqs[callerArg[c]].status = "offered"
PendingDestroy(c) ==
    /\ callerArg[c] \in 1..Len(dones)
    /\ dones[callerArg[c]].caller = c
    /\ ~dones[callerArg[c]].accepted

\* C25: a Submit or Destroy call the executor has not accepted when it takes
\* the shutdown signal is never accepted: its caller stays in the call, it
\* causes no step of the executor and no reply; once the executor has closed
\* its channels the call can only end in the send-on-closed-channel panic.
C25_LateCallsPanic ==
    /\ \A r \in Requests :
          reqs[r].status = "offered" =>
              /\ callerPc[reqs[r].caller] \in {"submit", "panic"}
              /\ callerArg[reqs[r].caller] = r
              /\ \A i \in DOMAIN log : log[i].req # r
              /\ Sent(r) = <<>> /\ ~back[r].closed
    /\ \A d \in 1..Len(dones) :
          ~dones[d].accepted =>
              /\ callerPc[dones[d].caller] \in {"destroy", "panic"}
              /\ callerArg[dones[d].caller] = d
              /\ ~dones[d].received /\ ~dones[d].closed
    /\ Ran("RecvShutdown") # {} =>
          /\ ~ENABLED ExecRecvRequest(Executor)
          /\ ~ENABLED ExecRecvShutdown(Executor)
    /\ \A c \in Callers :
          /\ (chansClosed /\ callerPc[c] \in {"submit", "destroy"}) =>
                ENABLED CallerPanic(c)
          /\ callerPc[c] = "panic" =>
                chansClosed /\ (PendingSubmit(c) \/ PendingDestroy(c))

\* a caller that received the completion value called Submit afterwards and
\* its call panicked
C25_Witness ==
    \E c \in Callers :
        /\ callerPc[c] = "panic"
        /\ PendingSubmit(c)
        /\ \E d \in 1..Len(dones) : dones[d].caller = c /\ dones[d].received

\* C26: the shutdown completion is a rendezvous: until the caller has
\* received the completion value the executor has not gone past the send:
\* it has not exited, is still pinned and has not closed its channels; and
\* while the holder of the completion channel is not receiving, the executor
\* cannot move.
C26_CompletionRendezvous ==
    /\ (finishedChan # 0 /\ ~dones[finishedChan].received) =>
          /\ execPc \in {"afterLoop", "sendFinished"}
          /\ pinned
          /\ ~chansClosed
    /\ (execPc = "sendFinished" /\ finishedChan # 0
          /\ callerPc[dones[finishedChan].caller] # "idle") =>
          ~ENABLED ExecutorStep(Executor)

\* the pool is destroyed and the executor stands at the completion send
\* while the caller holding the completion channel is busy in another call
C26_Witness ==
    /\ execPc = "sendFinished"
    /\ Ran("DestroyCommandPool") # {}
    /\ finishedChan # 0
    /\ callerPc[dones[finishedChan].caller] = "submit"
    /\ pinned

\* C27: every AllocateCommandBuffers call names the executor's own pool,
\* whatever pool the caller put into the request: the field is overwritten
\* before the call.
C27_AllocFromOwnPool ==
    /\ \A i \in Ran("AllocateCommandBuffers") :
          /\ log[i].pool = cmdPool
          /\ reqs[log[i].req].Alloc.CommandPool = cmdPool
    /\ \A r \in Requests :
          At("AllocateCommandBuffers", r) = {} =>
              reqs[r].Alloc.CommandPool = ForeignPool

\* an allocation succeeded for a request whose caller named another pool
C27_Witness ==
    /\ cmdPool # ForeignPool
    /\ \E i \in Ran("AllocateCommandBuffers") :
          log[i].ret = vkSuccess /\ log[i].pool = cmdPool

\* C22: each NewCommandPoolThread call starts exactly one goroutine with
\* channels of its own; a handle exists iff the call succeeded and holds the
\* channels of the goroutine started by the same call; every submitted
\* request is received at most once, and only by that goroutine.
C22_OwnExecutorOwnChannels ==
    /\ Len(goroutines) = Len(handles)
    /\ \A g \in DOMAIN goroutines :
          /\ (handles[g] # NilHandle) <=> (goroutines[g].ret = vkSuccess)
          /\ handles[g] # NilHandle =>
                /\ handles[g].rChan = goroutines[g].requestChan
                /\ handles[g].sfChan = goroutines[g].signalFinishedChan
          /\ goroutines[g].requestChan # goroutines[g].signalFinishedChan
          /\ \A o \in DOMAIN goroutines :
                o # g =>
                    {goroutines[g].requestChan, goroutines[g].signalFinishedChan}
                      \cap {goroutines[o].requestChan, goroutines[o].signalFinishedChan}
                        = {}
    /\ \A q \in DOMAIN submitted :
          /\ Len(submitted[q].recvBy) <= 1
          /\ \A i \in DOMAIN submitted[q].recvBy :
                submitted[q].recvBy[i] = submitted[q].handle

\* two executors run side by side and each has received a request submitted
\* to its own handle
C22_Witness ==
    \E p, q \in DOMAIN submitted :
        /\ submitted[p].handle # submitted[q].handle
        /\ submitted[p].recvBy # <<>>
        /\ submitted[q].recvBy # <<>>

\* C28: a fence is unsignaled only between its ResetFences call and the
\* completion of the QueueSubmit that follows with the same fence (after
\* which the program goes on, or has panicked in MustSucceed); a drawFrame
\* that returns early on out-of-date leaves its fence signaled; and, the
\* device completing submitted work, every WaitForFences call in drawFrame
\* returns.
C28_FenceWaitsReturn ==
    /\ [](\A f \in Frames :
             (framePc # "setup" /\ ~fenceSignaled[f]) =>
                 \/ fencePending[f]
                 \/ framePc \in {"submit", "panic"} /\ f = currentFrame)
    /\ []((framePc \in {"recreateAcquire", "idleAcquire"}
             \/ (framePc = "poll" /\ lastReturn = "outOfDate"))
            => fenceSignaled[currentFrame])
    /\ (framePc = "waitFrame") ~> (framePc # "waitFrame")
    /\ (framePc = "waitImage") ~> (framePc # "waitImage")

\* drawFrame stands at the WaitForFences call for imagesInFlight[imageIndex]
\* and that fence is not signaled yet
C28_Witness ==
    /\ framePc = "waitImage"
    /\ imagesInFlight[imageIndex + 1] # NullFence
    /\ ~fenceSignaled[imagesInFlight[imageIndex + 1] - 1]

\* C29: currentFrame stays in 0..FramesInFlight-1; it does not change inside
\* drawFrame before the final assignment; a drawFrame that submitted and
\* presented has advanced it by one modulo FramesInFlight; a drawFrame whose
\* acquire reported out-of-date has recreated the pipeline and left it as it
\* was.
C29_CurrentFrame ==
    /\ currentFrame \in Frames
    /\ framePc \notin {"setup", "poll", "closed"} => currentFrame = entryFrame
    /\ (framePc \in {"poll", "closed"} /\ lastReturn = "presented") =>
          currentFrame = (entryFrame + 1) % FramesInFlight
    /\ (framePc \in {"poll", "closed"} /\ lastReturn = "outOfDate") =>
          currentFrame = entryFrame /\ recreated

\* a drawFrame call for frame slot 1 has returned early on out-of-date
C29_Witness ==
    /\ framePc = "poll"
    /\ lastReturn = "outOfDate"
    /\ currentFrame = 1

\* C30: a drawFrame entered with framebufferResize set that reaches the end
\* of presentation, or whose acquire reports out-of-date, has called
\* recreatePipeline; recreatePipeline leaves framebufferResize clear and
\* imagesInFlight all null with one entry per image of the new swapchain;
\* imageIndex is within imagesInFlight and GraphicsCommandBuffers wherever it
\* is used; and every non-null imagesInFlight entry is the fence of a frame
\* submitted (or about to be) since the last recreation.
C30_ResizeRecreates ==
    /\ (framePc \in {"advance", "poll", "closed"} /\ lastReturn # "none"
          /\ entryResize /\ entryFrame = currentFrame) => recreated
    /\ (framePc = "poll" /\ lastReturn \in {"presented", "outOfDate"} /\ entryResize)
          => recreated
    /\ (framePc = "advance" /\ recreated) \/ (framePc = "poll" /\ lastReturn # "none") =>
          ~framebufferResize
    /\ (framePc = "advance" /\ recreated) \/ (framePc = "poll" /\ lastReturn = "outOfDate") =>
          imagesInFlight = MakeFences(swapchainImages)
    /\ framePc # "setup" =>
          /\ Len(imagesInFlight) = swapchainImages
          /\ swapchainImages >= 1
    /\ framePc \in {"waitImage", "reset", "submit", "present"} =>
          /\ imageIndex + 1 \in DOMAIN imagesInFlight
          /\ imageIndex < LenGraphicsCommandBuffers
    /\ \A i \in DOMAIN imagesInFlight :
          imagesInFlight[i] # NullFence =>
              \/ submittedSince[imagesInFlight[i] - 1]
              \/ /\ framePc \in {"reset", "submit", "panic"}
                 /\ i = imageIndex + 1
                 /\ imagesInFlight[i] = currentFrame + 1

\* a drawFrame entered after a resize has presented and recreated the
\* pipeline with a different number of swapchain images
C30_Witness ==
    /\ framePc = "advance"
    /\ recreated
    /\ entryResize
    /\ swapchainImages = 1
    /\ imageIndex = 1

====
